---------------------------- MODULE Spec2Model ----------------------------
(***************************************************************************)
(* A model of the smart posting bot of src/main.py (class SmartPostingBot). *)
(*                                                                         *)
(* Three specifications share this module:                                 *)
(*   SpecText  - process_text applied to bounded inputs and configurations *)
(*   SpecInit  - __init__ / validate_config over bounded environments, and *)
(*               the dispatch of an event to a registered handler          *)
(*   Spec      - handle_source_channel_message for two in-flight events,   *)
(*               interleaved at their await points                         *)
(*                                                                         *)
(* Python strings are sequences of Unicode code points (integers).         *)
(***************************************************************************)
EXTENDS Integers, Sequences, FiniteSets, TLC

VARIABLES
    \* ---- SpecText: one call of process_text
    ptText,        \* argument text (None or a string)
    ptConfig,      \* self.config, the processing options
    ptPc,          \* "call" before the call, "returned" after it
    ptResult,      \* the returned string
    \* ---- SpecInit: SmartPostingBot() and the dispatch of one event
    env,           \* os.environ: variable name -> string, or None when unset
    initPc,        \* position in __init__
    config,        \* self.config once the dict of lines 25-48 is built
    initError,     \* the exception __init__ raised, when it failed
    client,        \* TRUE once TelegramClient(...).start() has returned
    twitter_client,\* TRUE once TwitterClient(...) has been created
    registered,    \* chats of the handlers added so far, in order
    channel_id,    \* the loop variable of lines 70-75, read by every lambda
    invocation,    \* the last call of handle_source_channel_message
    \* ---- Spec: the handlers of in-flight events
    cur,           \* the event whose handler holds the event loop, 0 when none
    hs,            \* event -> the frame of its handle_source_channel_message
    fs,            \* the working directory: path -> file
    logChannel,    \* what has been sent to LOG_CHANNEL
    uploadCalls,   \* events for which legacy_api.media_upload was called
    createCalls,   \* events for which twitter_client.create_tweet was called
    tweets         \* the posts created

textVars == <<ptText, ptConfig, ptPc, ptResult>>
initVars == <<env, initPc, config, initError, client, twitter_client,
              registered, channel_id, invocation>>
routerVars == <<cur, hs, fs, logChannel, uploadCalls, createCalls, tweets>>

(***************************************************************************)
(* Bounds of the model.                                                    *)
(***************************************************************************)
\* Input texts of SpecText are concatenations of at most MaxTokens tokens.
MaxTokens == 3

\* Message ids of Spec range over 1..MaxMsgId.
MaxMsgId == 2

(***************************************************************************)
(* Python values.                                                          *)
(***************************************************************************)
\* Python's None where a string is expected (no code point is negative).
None == <<-1>>

\* `not x` for x a string or None.
Falsy(x) == x = None \/ x = <<>>

(***************************************************************************)
(* Character classes of Python's re module on str patterns.                *)
(***************************************************************************)
\* \s : Unicode whitespace (str.isspace).
IsSpace(c) ==
    \/ c \in 9..13
    \/ c \in 28..32
    \/ c = 133
    \/ c = 160
    \/ c = 5760
    \/ c \in 8192..8202
    \/ c \in {8232, 8233, 8239, 8287, 12288}

\* The maximal runs <<first, last>> of code points above ASCII that \w matches:
\* the characters for which str.isalnum() holds (letters, decimal digits, digits
\* and numerics of the Unicode database of the interpreter).
WordRangesAboveAscii ==
    {
      <<170, 170>>, <<178, 179>>, <<181, 181>>, <<185, 186>>, <<188, 190>>,
      <<192, 214>>, <<216, 246>>, <<248, 705>>, <<710, 721>>, <<736, 740>>,
      <<748, 748>>, <<750, 750>>, <<880, 884>>, <<886, 887>>, <<890, 893>>,
      <<895, 895>>, <<902, 902>>, <<904, 906>>, <<908, 908>>, <<910, 929>>,
      <<931, 1013>>, <<1015, 1153>>, <<1162, 1327>>, <<1329, 1366>>, <<1369, 1369>>,
      <<1376, 1416>>, <<1488, 1514>>, <<1519, 1522>>, <<1568, 1610>>, <<1632, 1641>>,
      <<1646, 1647>>, <<1649, 1747>>, <<1749, 1749>>, <<1765, 1766>>, <<1774, 1788>>,
      <<1791, 1791>>, <<1808, 1808>>, <<1810, 1839>>, <<1869, 1957>>, <<1969, 1969>>,
      <<1984, 2026>>, <<2036, 2037>>, <<2042, 2042>>, <<2048, 2069>>, <<2074, 2074>>,
      <<2084, 2084>>, <<2088, 2088>>, <<2112, 2136>>, <<2144, 2154>>, <<2160, 2183>>,
      <<2185, 2190>>, <<2208, 2249>>, <<2308, 2361>>, <<2365, 2365>>, <<2384, 2384>>,
      <<2392, 2401>>, <<2406, 2415>>, <<2417, 2432>>, <<2437, 2444>>, <<2447, 2448>>,
      <<2451, 2472>>, <<2474, 2480>>, <<2482, 2482>>, <<2486, 2489>>, <<2493, 2493>>,
      <<2510, 2510>>, <<2524, 2525>>, <<2527, 2529>>, <<2534, 2545>>, <<2548, 2553>>,
      <<2556, 2556>>, <<2565, 2570>>, <<2575, 2576>>, <<2579, 2600>>, <<2602, 2608>>,
      <<2610, 2611>>, <<2613, 2614>>, <<2616, 2617>>, <<2649, 2652>>, <<2654, 2654>>,
      <<2662, 2671>>, <<2674, 2676>>, <<2693, 2701>>, <<2703, 2705>>, <<2707, 2728>>,
      <<2730, 2736>>, <<2738, 2739>>, <<2741, 2745>>, <<2749, 2749>>, <<2768, 2768>>,
      <<2784, 2785>>, <<2790, 2799>>, <<2809, 2809>>, <<2821, 2828>>, <<2831, 2832>>,
      <<2835, 2856>>, <<2858, 2864>>, <<2866, 2867>>, <<2869, 2873>>, <<2877, 2877>>,
      <<2908, 2909>>, <<2911, 2913>>, <<2918, 2927>>, <<2929, 2935>>, <<2947, 2947>>,
      <<2949, 2954>>, <<2958, 2960>>, <<2962, 2965>>, <<2969, 2970>>, <<2972, 2972>>,
      <<2974, 2975>>, <<2979, 2980>>, <<2984, 2986>>, <<2990, 3001>>, <<3024, 3024>>,
      <<3046, 3058>>, <<3077, 3084>>, <<3086, 3088>>, <<3090, 3112>>, <<3114, 3129>>,
      <<3133, 3133>>, <<3160, 3162>>, <<3165, 3165>>, <<3168, 3169>>, <<3174, 3183>>,
      <<3192, 3198>>, <<3200, 3200>>, <<3205, 3212>>, <<3214, 3216>>, <<3218, 3240>>,
      <<3242, 3251>>, <<3253, 3257>>, <<3261, 3261>>, <<3293, 3294>>, <<3296, 3297>>,
      <<3302, 3311>>, <<3313, 3314>>, <<3332, 3340>>, <<3342, 3344>>, <<3346, 3386>>,
      <<3389, 3389>>, <<3406, 3406>>, <<3412, 3414>>, <<3416, 3425>>, <<3430, 3448>>,
      <<3450, 3455>>, <<3461, 3478>>, <<3482, 3505>>, <<3507, 3515>>, <<3517, 3517>>,
      <<3520, 3526>>, <<3558, 3567>>, <<3585, 3632>>, <<3634, 3635>>, <<3648, 3654>>,
      <<3664, 3673>>, <<3713, 3714>>, <<3716, 3716>>, <<3718, 3722>>, <<3724, 3747>>,
      <<3749, 3749>>, <<3751, 3760>>, <<3762, 3763>>, <<3773, 3773>>, <<3776, 3780>>,
      <<3782, 3782>>, <<3792, 3801>>, <<3804, 3807>>, <<3840, 3840>>, <<3872, 3891>>,
      <<3904, 3911>>, <<3913, 3948>>, <<3976, 3980>>, <<4096, 4138>>, <<4159, 4169>>,
      <<4176, 4181>>, <<4186, 4189>>, <<4193, 4193>>, <<4197, 4198>>, <<4206, 4208>>,
      <<4213, 4225>>, <<4238, 4238>>, <<4240, 4249>>, <<4256, 4293>>, <<4295, 4295>>,
      <<4301, 4301>>, <<4304, 4346>>, <<4348, 4680>>, <<4682, 4685>>, <<4688, 4694>>,
      <<4696, 4696>>, <<4698, 4701>>, <<4704, 4744>>, <<4746, 4749>>, <<4752, 4784>>,
      <<4786, 4789>>, <<4792, 4798>>, <<4800, 4800>>, <<4802, 4805>>, <<4808, 4822>>,
      <<4824, 4880>>, <<4882, 4885>>, <<4888, 4954>>, <<4969, 4988>>, <<4992, 5007>>,
      <<5024, 5109>>, <<5112, 5117>>, <<5121, 5740>>, <<5743, 5759>>, <<5761, 5786>>,
      <<5792, 5866>>, <<5870, 5880>>, <<5888, 5905>>, <<5919, 5937>>, <<5952, 5969>>,
      <<5984, 5996>>, <<5998, 6000>>, <<6016, 6067>>, <<6103, 6103>>, <<6108, 6108>>,
      <<6112, 6121>>, <<6128, 6137>>, <<6160, 6169>>, <<6176, 6264>>, <<6272, 6276>>,
      <<6279, 6312>>, <<6314, 6314>>, <<6320, 6389>>, <<6400, 6430>>, <<6470, 6509>>,
      <<6512, 6516>>, <<6528, 6571>>, <<6576, 6601>>, <<6608, 6618>>, <<6656, 6678>>,
      <<6688, 6740>>, <<6784, 6793>>, <<6800, 6809>>, <<6823, 6823>>, <<6917, 6963>>,
      <<6981, 6988>>, <<6992, 7001>>, <<7043, 7072>>, <<7086, 7141>>, <<7168, 7203>>,
      <<7232, 7241>>, <<7245, 7293>>, <<7296, 7304>>, <<7312, 7354>>, <<7357, 7359>>,
      <<7401, 7404>>, <<7406, 7411>>, <<7413, 7414>>, <<7418, 7418>>, <<7424, 7615>>,
      <<7680, 7957>>, <<7960, 7965>>, <<7968, 8005>>, <<8008, 8013>>, <<8016, 8023>>,
      <<8025, 8025>>, <<8027, 8027>>, <<8029, 8029>>, <<8031, 8061>>, <<8064, 8116>>,
      <<8118, 8124>>, <<8126, 8126>>, <<8130, 8132>>, <<8134, 8140>>, <<8144, 8147>>,
      <<8150, 8155>>, <<8160, 8172>>, <<8178, 8180>>, <<8182, 8188>>, <<8304, 8305>>,
      <<8308, 8313>>, <<8319, 8329>>, <<8336, 8348>>, <<8450, 8450>>, <<8455, 8455>>,
      <<8458, 8467>>, <<8469, 8469>>, <<8473, 8477>>, <<8484, 8484>>, <<8486, 8486>>,
      <<8488, 8488>>, <<8490, 8493>>, <<8495, 8505>>, <<8508, 8511>>, <<8517, 8521>>,
      <<8526, 8526>>, <<8528, 8585>>, <<9312, 9371>>, <<9450, 9471>>, <<10102, 10131>>,
      <<11264, 11492>>, <<11499, 11502>>, <<11506, 11507>>, <<11517, 11517>>, <<11520, 11557>>,
      <<11559, 11559>>, <<11565, 11565>>, <<11568, 11623>>, <<11631, 11631>>, <<11648, 11670>>,
      <<11680, 11686>>, <<11688, 11694>>, <<11696, 11702>>, <<11704, 11710>>, <<11712, 11718>>,
      <<11720, 11726>>, <<11728, 11734>>, <<11736, 11742>>, <<11823, 11823>>, <<12293, 12295>>,
      <<12321, 12329>>, <<12337, 12341>>, <<12344, 12348>>, <<12353, 12438>>, <<12445, 12447>>,
      <<12449, 12538>>, <<12540, 12543>>, <<12549, 12591>>, <<12593, 12686>>, <<12690, 12693>>,
      <<12704, 12735>>, <<12784, 12799>>, <<12832, 12841>>, <<12872, 12879>>, <<12881, 12895>>,
      <<12928, 12937>>, <<12977, 12991>>, <<13312, 19903>>, <<19968, 42124>>, <<42192, 42237>>,
      <<42240, 42508>>, <<42512, 42539>>, <<42560, 42606>>, <<42623, 42653>>, <<42656, 42735>>,
      <<42775, 42783>>, <<42786, 42888>>, <<42891, 42954>>, <<42960, 42961>>, <<42963, 42963>>,
      <<42965, 42969>>, <<42994, 43009>>, <<43011, 43013>>, <<43015, 43018>>, <<43020, 43042>>,
      <<43056, 43061>>, <<43072, 43123>>, <<43138, 43187>>, <<43216, 43225>>, <<43250, 43255>>,
      <<43259, 43259>>, <<43261, 43262>>, <<43264, 43301>>, <<43312, 43334>>, <<43360, 43388>>,
      <<43396, 43442>>, <<43471, 43481>>, <<43488, 43492>>, <<43494, 43518>>, <<43520, 43560>>,
      <<43584, 43586>>, <<43588, 43595>>, <<43600, 43609>>, <<43616, 43638>>, <<43642, 43642>>,
      <<43646, 43695>>, <<43697, 43697>>, <<43701, 43702>>, <<43705, 43709>>, <<43712, 43712>>,
      <<43714, 43714>>, <<43739, 43741>>, <<43744, 43754>>, <<43762, 43764>>, <<43777, 43782>>,
      <<43785, 43790>>, <<43793, 43798>>, <<43808, 43814>>, <<43816, 43822>>, <<43824, 43866>>,
      <<43868, 43881>>, <<43888, 44002>>, <<44016, 44025>>, <<44032, 55203>>, <<55216, 55238>>,
      <<55243, 55291>>, <<63744, 64109>>, <<64112, 64217>>, <<64256, 64262>>, <<64275, 64279>>,
      <<64285, 64285>>, <<64287, 64296>>, <<64298, 64310>>, <<64312, 64316>>, <<64318, 64318>>,
      <<64320, 64321>>, <<64323, 64324>>, <<64326, 64433>>, <<64467, 64829>>, <<64848, 64911>>,
      <<64914, 64967>>, <<65008, 65019>>, <<65136, 65140>>, <<65142, 65276>>, <<65296, 65305>>,
      <<65313, 65338>>, <<65345, 65370>>, <<65382, 65470>>, <<65474, 65479>>, <<65482, 65487>>,
      <<65490, 65495>>, <<65498, 65500>>, <<65536, 65547>>, <<65549, 65574>>, <<65576, 65594>>,
      <<65596, 65597>>, <<65599, 65613>>, <<65616, 65629>>, <<65664, 65786>>, <<65799, 65843>>,
      <<65856, 65912>>, <<65930, 65931>>, <<66176, 66204>>, <<66208, 66256>>, <<66273, 66299>>,
      <<66304, 66339>>, <<66349, 66378>>, <<66384, 66421>>, <<66432, 66461>>, <<66464, 66499>>,
      <<66504, 66511>>, <<66513, 66517>>, <<66560, 66717>>, <<66720, 66729>>, <<66736, 66771>>,
      <<66776, 66811>>, <<66816, 66855>>, <<66864, 66915>>, <<66928, 66938>>, <<66940, 66954>>,
      <<66956, 66962>>, <<66964, 66965>>, <<66967, 66977>>, <<66979, 66993>>, <<66995, 67001>>,
      <<67003, 67004>>, <<67072, 67382>>, <<67392, 67413>>, <<67424, 67431>>, <<67456, 67461>>,
      <<67463, 67504>>, <<67506, 67514>>, <<67584, 67589>>, <<67592, 67592>>, <<67594, 67637>>,
      <<67639, 67640>>, <<67644, 67644>>, <<67647, 67669>>, <<67672, 67702>>, <<67705, 67742>>,
      <<67751, 67759>>, <<67808, 67826>>, <<67828, 67829>>, <<67835, 67867>>, <<67872, 67897>>,
      <<67968, 68023>>, <<68028, 68047>>, <<68050, 68096>>, <<68112, 68115>>, <<68117, 68119>>,
      <<68121, 68149>>, <<68160, 68168>>, <<68192, 68222>>, <<68224, 68255>>, <<68288, 68295>>,
      <<68297, 68324>>, <<68331, 68335>>, <<68352, 68405>>, <<68416, 68437>>, <<68440, 68466>>,
      <<68472, 68497>>, <<68521, 68527>>, <<68608, 68680>>, <<68736, 68786>>, <<68800, 68850>>,
      <<68858, 68899>>, <<68912, 68921>>, <<69216, 69246>>, <<69248, 69289>>, <<69296, 69297>>,
      <<69376, 69415>>, <<69424, 69445>>, <<69457, 69460>>, <<69488, 69505>>, <<69552, 69579>>,
      <<69600, 69622>>, <<69635, 69687>>, <<69714, 69743>>, <<69745, 69746>>, <<69749, 69749>>,
      <<69763, 69807>>, <<69840, 69864>>, <<69872, 69881>>, <<69891, 69926>>, <<69942, 69951>>,
      <<69956, 69956>>, <<69959, 69959>>, <<69968, 70002>>, <<70006, 70006>>, <<70019, 70066>>,
      <<70081, 70084>>, <<70096, 70106>>, <<70108, 70108>>, <<70113, 70132>>, <<70144, 70161>>,
      <<70163, 70187>>, <<70272, 70278>>, <<70280, 70280>>, <<70282, 70285>>, <<70287, 70301>>,
      <<70303, 70312>>, <<70320, 70366>>, <<70384, 70393>>, <<70405, 70412>>, <<70415, 70416>>,
      <<70419, 70440>>, <<70442, 70448>>, <<70450, 70451>>, <<70453, 70457>>, <<70461, 70461>>,
      <<70480, 70480>>, <<70493, 70497>>, <<70656, 70708>>, <<70727, 70730>>, <<70736, 70745>>,
      <<70751, 70753>>, <<70784, 70831>>, <<70852, 70853>>, <<70855, 70855>>, <<70864, 70873>>,
      <<71040, 71086>>, <<71128, 71131>>, <<71168, 71215>>, <<71236, 71236>>, <<71248, 71257>>,
      <<71296, 71338>>, <<71352, 71352>>, <<71360, 71369>>, <<71424, 71450>>, <<71472, 71483>>,
      <<71488, 71494>>, <<71680, 71723>>, <<71840, 71922>>, <<71935, 71942>>, <<71945, 71945>>,
      <<71948, 71955>>, <<71957, 71958>>, <<71960, 71983>>, <<71999, 71999>>, <<72001, 72001>>,
      <<72016, 72025>>, <<72096, 72103>>, <<72106, 72144>>, <<72161, 72161>>, <<72163, 72163>>,
      <<72192, 72192>>, <<72203, 72242>>, <<72250, 72250>>, <<72272, 72272>>, <<72284, 72329>>,
      <<72349, 72349>>, <<72368, 72440>>, <<72704, 72712>>, <<72714, 72750>>, <<72768, 72768>>,
      <<72784, 72812>>, <<72818, 72847>>, <<72960, 72966>>, <<72968, 72969>>, <<72971, 73008>>,
      <<73030, 73030>>, <<73040, 73049>>, <<73056, 73061>>, <<73063, 73064>>, <<73066, 73097>>,
      <<73112, 73112>>, <<73120, 73129>>, <<73440, 73458>>, <<73648, 73648>>, <<73664, 73684>>,
      <<73728, 74649>>, <<74752, 74862>>, <<74880, 75075>>, <<77712, 77808>>, <<77824, 78894>>,
      <<82944, 83526>>, <<92160, 92728>>, <<92736, 92766>>, <<92768, 92777>>, <<92784, 92862>>,
      <<92864, 92873>>, <<92880, 92909>>, <<92928, 92975>>, <<92992, 92995>>, <<93008, 93017>>,
      <<93019, 93025>>, <<93027, 93047>>, <<93053, 93071>>, <<93760, 93846>>, <<93952, 94026>>,
      <<94032, 94032>>, <<94099, 94111>>, <<94176, 94177>>, <<94179, 94179>>, <<94208, 100343>>,
      <<100352, 101589>>, <<101632, 101640>>, <<110576, 110579>>, <<110581, 110587>>, <<110589, 110590>>,
      <<110592, 110882>>, <<110928, 110930>>, <<110948, 110951>>, <<110960, 111355>>, <<113664, 113770>>,
      <<113776, 113788>>, <<113792, 113800>>, <<113808, 113817>>, <<119520, 119539>>, <<119648, 119672>>,
      <<119808, 119892>>, <<119894, 119964>>, <<119966, 119967>>, <<119970, 119970>>, <<119973, 119974>>,
      <<119977, 119980>>, <<119982, 119993>>, <<119995, 119995>>, <<119997, 120003>>, <<120005, 120069>>,
      <<120071, 120074>>, <<120077, 120084>>, <<120086, 120092>>, <<120094, 120121>>, <<120123, 120126>>,
      <<120128, 120132>>, <<120134, 120134>>, <<120138, 120144>>, <<120146, 120485>>, <<120488, 120512>>,
      <<120514, 120538>>, <<120540, 120570>>, <<120572, 120596>>, <<120598, 120628>>, <<120630, 120654>>,
      <<120656, 120686>>, <<120688, 120712>>, <<120714, 120744>>, <<120746, 120770>>, <<120772, 120779>>,
      <<120782, 120831>>, <<122624, 122654>>, <<123136, 123180>>, <<123191, 123197>>, <<123200, 123209>>,
      <<123214, 123214>>, <<123536, 123565>>, <<123584, 123627>>, <<123632, 123641>>, <<124896, 124902>>,
      <<124904, 124907>>, <<124909, 124910>>, <<124912, 124926>>, <<124928, 125124>>, <<125127, 125135>>,
      <<125184, 125251>>, <<125259, 125259>>, <<125264, 125273>>, <<126065, 126123>>, <<126125, 126127>>,
      <<126129, 126132>>, <<126209, 126253>>, <<126255, 126269>>, <<126464, 126467>>, <<126469, 126495>>,
      <<126497, 126498>>, <<126500, 126500>>, <<126503, 126503>>, <<126505, 126514>>, <<126516, 126519>>,
      <<126521, 126521>>, <<126523, 126523>>, <<126530, 126530>>, <<126535, 126535>>, <<126537, 126537>>,
      <<126539, 126539>>, <<126541, 126543>>, <<126545, 126546>>, <<126548, 126548>>, <<126551, 126551>>,
      <<126553, 126553>>, <<126555, 126555>>, <<126557, 126557>>, <<126559, 126559>>, <<126561, 126562>>,
      <<126564, 126564>>, <<126567, 126570>>, <<126572, 126578>>, <<126580, 126583>>, <<126585, 126588>>,
      <<126590, 126590>>, <<126592, 126601>>, <<126603, 126619>>, <<126625, 126627>>, <<126629, 126633>>,
      <<126635, 126651>>, <<127232, 127244>>, <<130032, 130041>>, <<131072, 173791>>, <<173824, 177976>>,
      <<177984, 178205>>, <<178208, 183969>>, <<183984, 191456>>, <<194560, 195101>>, <<196608, 201546>>
    }

\* \w : Unicode alphanumerics and the underscore.
IsWord(c) ==
    IF c < 128
    THEN \/ c \in 48..57
         \/ c \in 65..90
         \/ c = 95
         \/ c \in 97..122
    ELSE \E r \in WordRangesAboveAscii : c \in r[1]..r[2]

\* The character class of emoji_pattern (the six ranges, in source order).
IsEmoji(c) ==
    \/ c \in 128512..128591     \* U+1F600-U+1F64F
    \/ c \in 127744..128511     \* U+1F300-U+1F5FF
    \/ c \in 128640..128767     \* U+1F680-U+1F6FF
    \/ c \in 127456..127487     \* U+1F1E0-U+1F1FF
    \/ c \in 9986..10160        \* U+2702-U+27B0
    \/ c \in 9410..127569       \* U+24C2-U+1F251

(***************************************************************************)
(* Regular-expression matching.  A matcher gives, for a start index i, the *)
(* index just after the match that starts at i, or 0 when none starts at i.*)
(***************************************************************************)
\* The literal lit occurs in s at index i.
StartsWith(s, i, lit) ==
    /\ i + Len(lit) - 1 <= Len(s)
    /\ \A k \in 1..Len(lit) : s[i + k - 1] = lit[k]

\* End (exclusive) of the greedy run of \S starting at i.
RECURSIVE NonSpaceRunEnd(_, _)
NonSpaceRunEnd(s, i) ==
    IF i > Len(s) \/ IsSpace(s[i]) THEN i ELSE NonSpaceRunEnd(s, i + 1)

\* End (exclusive) of the greedy run of \s starting at i.
RECURSIVE SpaceRunEnd(_, _)
SpaceRunEnd(s, i) ==
    IF i > Len(s) \/ ~IsSpace(s[i]) THEN i ELSE SpaceRunEnd(s, i + 1)

\* End (exclusive) of the greedy run of \w starting at i.
RECURSIVE WordRunEnd(_, _)
WordRunEnd(s, i) ==
    IF i > Len(s) \/ ~IsWord(s[i]) THEN i ELSE WordRunEnd(s, i + 1)

\* End (exclusive) of the greedy run of emoji-class characters starting at i.
RECURSIVE EmojiRunEnd(_, _)
EmojiRunEnd(s, i) ==
    IF i > Len(s) \/ ~IsEmoji(s[i]) THEN i ELSE EmojiRunEnd(s, i + 1)

\* lit\S+ at index i.
LiteralNonSpace(s, i, lit) ==
    IF StartsWith(s, i, lit) /\ NonSpaceRunEnd(s, i + Len(lit)) > i + Len(lit)
    THEN NonSpaceRunEnd(s, i + Len(lit))
    ELSE 0

\* The literals of the URL pattern: "http", "www", "https".
LitHttp == <<104, 116, 116, 112>>
LitWww == <<119, 119, 119>>
LitHttps == <<104, 116, 116, 112, 115>>

\* A weaker URL matcher: only the http alternative.
UrlMatchEndHttpOnly(s, i) == LiteralNonSpace(s, i, LitHttp)

\* http\S+|www\S+|https\S+ at index i: the alternatives in order.
UrlMatchEnd(s, i) ==
    IF LiteralNonSpace(s, i, LitHttp) > 0 THEN LiteralNonSpace(s, i, LitHttp)
    ELSE IF LiteralNonSpace(s, i, LitWww) > 0 THEN LiteralNonSpace(s, i, LitWww)
    ELSE LiteralNonSpace(s, i, LitHttps)

\* c\w+ at index i, for c the "#" of hashtags or the "@" of mentions.
SigilWordEnd(s, i, c) ==
    IF i <= Len(s) /\ s[i] = c /\ WordRunEnd(s, i + 1) > i + 1
    THEN WordRunEnd(s, i + 1)
    ELSE 0

\* [emoji class]+ at index i.
EmojiMatchEnd(s, i) ==
    IF EmojiRunEnd(s, i) > i THEN EmojiRunEnd(s, i) ELSE 0

\* \s+ at index i.
SpaceMatchEnd(s, i) ==
    IF SpaceRunEnd(s, i) > i THEN SpaceRunEnd(s, i) ELSE 0

\* re.sub(pattern, repl, s) from index i on: the leftmost non-overlapping
\* matches, left to right, each replaced by repl.  ends[i] is the matcher.
RECURSIVE ReSub(_, _, _, _)
ReSub(s, ends, repl, i) ==
    IF i > Len(s) THEN <<>>
    ELSE IF ends[i] > 0 THEN repl \o ReSub(s, ends, repl, ends[i])
    ELSE <<s[i]>> \o ReSub(s, ends, repl, i + 1)

\* str.strip(): leading and trailing whitespace removed.
RECURSIVE LStrip(_)
LStrip(s) == IF s # <<>> /\ IsSpace(Head(s)) THEN LStrip(Tail(s)) ELSE s

RECURSIVE RStrip(_)
RStrip(s) ==
    IF s # <<>> /\ IsSpace(s[Len(s)]) THEN RStrip(SubSeq(s, 1, Len(s) - 1)) ELSE s

Strip(s) == RStrip(LStrip(s))

(***************************************************************************)
(* The steps of process_text.                                              *)
(***************************************************************************)
\* re.sub(r'http\S+|www\S+|https\S+', '', s)
RemoveUrls(s) == ReSub(s, [i \in 1..Len(s) |-> UrlMatchEnd(s, i)], <<>>, 1)

\* re.sub(r'#\w+', '', s)
RemoveHashtags(s) == ReSub(s, [i \in 1..Len(s) |-> SigilWordEnd(s, i, 35)], <<>>, 1)

\* re.sub(r'@\w+', '', s)
RemoveMentions(s) == ReSub(s, [i \in 1..Len(s) |-> SigilWordEnd(s, i, 64)], <<>>, 1)

\* emoji_pattern.sub('', s)
RemoveEmojis(s) == ReSub(s, [i \in 1..Len(s) |-> EmojiMatchEnd(s, i)], <<>>, 1)

\* re.sub(r'\s+', ' ', s).strip()
TrimExtraSpaces(s) ==
    Strip(ReSub(s, [i \in 1..Len(s) |-> SpaceMatchEnd(s, i)], <<32>>, 1))

\* process_text with the prefix prepended before URL removal: a wrong order.
process_text_prefix_first(text, cfg) ==
    IF Falsy(text) THEN <<>>
    ELSE
      LET t0 == IF ~Falsy(cfg.ADD_PREFIX) THEN cfg.ADD_PREFIX \o text ELSE text
          t1 == IF cfg.REMOVE_URLS THEN RemoveUrls(t0) ELSE t0
          t2 == IF cfg.REMOVE_HASHTAGS THEN RemoveHashtags(t1) ELSE t1
          t3 == IF cfg.REMOVE_MENTIONS THEN RemoveMentions(t2) ELSE t2
          t4 == IF cfg.REMOVE_EMOJIS THEN RemoveEmojis(t3) ELSE t3
          t5 == IF cfg.TRIM_EXTRA_SPACES THEN TrimExtraSpaces(t4) ELSE t4
          t7 == IF ~Falsy(cfg.ADD_SUFFIX) THEN t5 \o cfg.ADD_SUFFIX ELSE t5
      IN Strip(t7)

\* process_text with the URL step matching only http\S+.
process_text_http_only(text, cfg) ==
    IF Falsy(text) THEN <<>>
    ELSE
      LET t1 == IF cfg.REMOVE_URLS
                THEN ReSub(text, [i \in 1..Len(text) |-> UrlMatchEndHttpOnly(text, i)], <<>>, 1)
                ELSE text
          t2 == IF cfg.REMOVE_HASHTAGS THEN RemoveHashtags(t1) ELSE t1
          t3 == IF cfg.REMOVE_MENTIONS THEN RemoveMentions(t2) ELSE t2
          t4 == IF cfg.REMOVE_EMOJIS THEN RemoveEmojis(t3) ELSE t3
          t5 == IF cfg.TRIM_EXTRA_SPACES THEN TrimExtraSpaces(t4) ELSE t4
          t6 == IF ~Falsy(cfg.ADD_PREFIX) THEN cfg.ADD_PREFIX \o t5 ELSE t5
          t7 == IF ~Falsy(cfg.ADD_SUFFIX) THEN t6 \o cfg.ADD_SUFFIX ELSE t6
      IN Strip(t7)

\* SmartPostingBot.process_text(text): the cfgured steps, in source order.
process_text(text, cfg) ==
    IF Falsy(text) THEN <<>>
    ELSE
      LET t1 == IF cfg.REMOVE_URLS THEN RemoveUrls(text) ELSE text
          t2 == IF cfg.REMOVE_HASHTAGS THEN RemoveHashtags(t1) ELSE t1
          t3 == IF cfg.REMOVE_MENTIONS THEN RemoveMentions(t2) ELSE t2
          t4 == IF cfg.REMOVE_EMOJIS THEN RemoveEmojis(t3) ELSE t3
          t5 == IF cfg.TRIM_EXTRA_SPACES THEN TrimExtraSpaces(t4) ELSE t4
          t6 == IF ~Falsy(cfg.ADD_PREFIX) THEN cfg.ADD_PREFIX \o t5 ELSE t5
          t7 == IF ~Falsy(cfg.ADD_SUFFIX) THEN t6 \o cfg.ADD_SUFFIX ELSE t6
      IN Strip(t7)

(***************************************************************************)
(* SpecText: process_text on bounded inputs.                               *)
(***************************************************************************)
\* Pieces of input text: "http", "ww", "w.", the emoji U+1F4E2, " ", "#", "@",
\* and the letter U+00E9.
Tokens ==
    { <<104, 116, 116, 112>>, <<119, 119>>, <<119, 46>>, <<128226>>,
      <<32>>, <<35>>, <<64>>, <<233>> }

\* The strings made of at most n tokens.
RECURSIVE TextsUpTo(_)
TextsUpTo(n) ==
    IF n = 0 THEN { <<>> }
    ELSE TextsUpTo(n - 1) \cup { t \o k : t \in TextsUpTo(n - 1), k \in Tokens }

\* Prefixes: none, or the default "<U+1F4E2> " of ADD_PREFIX.
Prefixes == { <<>>, <<128226, 32>> }

\* Suffixes: none, or " www.x".
Suffixes == { <<>>, <<32, 119, 119, 119, 46, 120>> }

\* The processing options of self.config, every toggle combination.
TextConfigs ==
    [ REMOVE_URLS : BOOLEAN, REMOVE_HASHTAGS : BOOLEAN, REMOVE_MENTIONS : BOOLEAN,
      REMOVE_EMOJIS : BOOLEAN, TRIM_EXTRA_SPACES : BOOLEAN,
      ADD_PREFIX : Prefixes, ADD_SUFFIX : Suffixes ]

InitTextVars ==
    /\ ptText \in TextsUpTo(MaxTokens) \cup {None}
    /\ ptConfig \in TextConfigs
    /\ ptPc = "call"
    /\ ptResult = <<>>

\* bot.process_text(text) is called and returns.
ProcessTextCall ==
    /\ ptPc = "call"
    /\ ptResult' = process_text(ptText, ptConfig)
    /\ ptPc' = "returned"
    /\ UNCHANGED <<ptText, ptConfig>>
    /\ UNCHANGED initVars
    /\ UNCHANGED routerVars

(***************************************************************************)
(* The environment and the configuration dict of __init__.                 *)
(***************************************************************************)
\* required_vars of validate_config, in source order.
RequiredVars ==
    << "TELEGRAM_API_ID", "TELEGRAM_API_HASH", "TELEGRAM_BOT_TOKEN",
       "SOURCE_CHANNELS", "LOG_CHANNEL",
       "TWITTER_BEARER_TOKEN", "TWITTER_CONSUMER_KEY",
       "TWITTER_CONSUMER_SECRET", "TWITTER_ACCESS_TOKEN",
       "TWITTER_ACCESS_SECRET" >>

\* The settings read as plain strings (no conversion).
CredentialVars ==
    { "TELEGRAM_API_ID", "TELEGRAM_API_HASH", "TELEGRAM_BOT_TOKEN",
      "TWITTER_BEARER_TOKEN", "TWITTER_CONSUMER_KEY",
      "TWITTER_CONSUMER_SECRET", "TWITTER_ACCESS_TOKEN",
      "TWITTER_ACCESS_SECRET" }

\* The processing options, each with a default.
OptionVars ==
    { "MAX_TWITTER_LENGTH", "SKIP_LONG_POSTS", "REMOVE_URLS", "REMOVE_HASHTAGS",
      "REMOVE_MENTIONS", "ADD_PREFIX", "ADD_SUFFIX", "REMOVE_EMOJIS",
      "TRIM_EXTRA_SPACES" }

EnvVars == { RequiredVars[i] : i \in 1..Len(RequiredVars) } \cup OptionVars

\* os.getenv(name, default)
GetEnv(e, name, default) == IF e[name] = None THEN default ELSE e[name]

\* The defaults of lines 39-47: '280', 'True', 'False', and the prefix.
Default280 == <<50, 56, 48>>
DefaultTrue == <<84, 114, 117, 101>>
DefaultFalse == <<70, 97, 108, 115, 101>>
DefaultPrefix == <<128226, 32>>

\* str.lower() as far as the comparison with 'true' sees it: the ASCII letters
\* are lowered; no other character lowers to a letter of 'true'.
Lower(s) == [i \in 1..Len(s) |-> IF s[i] \in 65..90 THEN s[i] + 32 ELSE s[i]]

\* os.getenv(name, default).lower() == 'true'
EnvFlag(e, name, default) == Lower(GetEnv(e, name, default)) = <<116, 114, 117, 101>>

\* The code points of the digit zero of every decimal-digit script (category
\* Nd): the ten digits of a script are consecutive, from its zero.
DecimalZeros ==
    {
      48, 1632, 1776, 1984, 2406, 2534, 2662, 2790, 2918, 3046,
      3174, 3302, 3430, 3558, 3664, 3792, 3872, 4160, 4240, 6112,
      6160, 6470, 6608, 6784, 6800, 6992, 7088, 7232, 7248, 42528,
      43216, 43264, 43472, 43504, 43600, 44016, 65296, 66720, 68912, 69734,
      69872, 69942, 70096, 70384, 70736, 70864, 71248, 71360, 71472, 71904,
      72016, 72784, 73040, 73120, 92768, 92864, 93008, 120782, 120792, 120802,
      120812, 120822, 123200, 123632, 125264, 130032
    }

\* The decimal value of the digit c, -1 when c is not a decimal digit.
DecimalValue(c) ==
    IF \E z \in DecimalZeros : c \in z..(z + 9)
    THEN c - (CHOOSE z \in DecimalZeros : c \in z..(z + 9))
    ELSE -1

\* The whitespace int() skips around a literal: the ASCII characters 9..13 and
\* 32, and the Unicode whitespace above ASCII; not the separators 28..31.
IsIntSpace(c) == IsSpace(c) /\ c \notin 28..31

RECURSIVE IntLStrip(_)
IntLStrip(s) == IF s # <<>> /\ IsIntSpace(Head(s)) THEN IntLStrip(Tail(s)) ELSE s

RECURSIVE IntRStrip(_)
IntRStrip(s) ==
    IF s # <<>> /\ IsIntSpace(s[Len(s)]) THEN IntRStrip(SubSeq(s, 1, Len(s) - 1)) ELSE s

IntStrip(s) == IntRStrip(IntLStrip(s))

\* sys.int_info.default_max_str_digits: int() refuses a literal of more digits
\* (underscores, sign and whitespace not counted).
MaxStrDigits == 4300

\* The digits of an int() literal after the sign: decimal digits of any script,
\* a single underscore allowed between two digits, at most MaxStrDigits digits.
IntBodyOk(b) ==
    /\ b # <<>>
    /\ Cardinality({ i \in 1..Len(b) : DecimalValue(b[i]) >= 0 }) <= MaxStrDigits
    /\ \A i \in 1..Len(b) :
          \/ DecimalValue(b[i]) >= 0
          \/ /\ b[i] = 95
             /\ i > 1 /\ i < Len(b)
             /\ DecimalValue(b[i - 1]) >= 0 /\ DecimalValue(b[i + 1]) >= 0

\* The literal without the surrounding whitespace and the sign.
IntBody(s) ==
    LET t == IntStrip(s)
    IN IF t # <<>> /\ Head(t) \in {43, 45} THEN Tail(t) ELSE t

\* int(s) does not raise ValueError, for s a string.
IntOk(s) == IntBodyOk(IntBody(s))

RECURSIVE DigitsValue(_)
DigitsValue(b) ==
    IF b = <<>> THEN 0
    ELSE IF b[Len(b)] = 95 THEN DigitsValue(SubSeq(b, 1, Len(b) - 1))
    ELSE 10 * DigitsValue(SubSeq(b, 1, Len(b) - 1)) + DecimalValue(b[Len(b)])

\* int(s), for s a string with IntOk(s).
IntValue(s) ==
    LET t == IntStrip(s)
    IN IF t # <<>> /\ Head(t) = 45 THEN 0 - DigitsValue(IntBody(s))
       ELSE DigitsValue(IntBody(s))

\* s.split(',')
RECURSIVE SplitComma(_)
SplitComma(s) ==
    IF \E i \in 1..Len(s) : s[i] = 44
    THEN LET i == CHOOSE j \in 1..Len(s) : s[j] = 44 /\ \A k \in 1..(j - 1) : s[k] # 44
         IN <<SubSeq(s, 1, i - 1)>> \o SplitComma(SubSeq(s, i + 1, Len(s)))
    ELSE <<s>>

\* The x of line 29 that pass `if x.strip()`, stripped.
ChannelParts(e) ==
    LET parts == SplitComma(GetEnv(e, "SOURCE_CHANNELS", <<>>))
        kept == SelectSeq(parts, LAMBDA x : Strip(x) # <<>>)
    IN [i \in 1..Len(kept) |-> Strip(kept[i])]

NoError == [type |-> "none", names |-> "none"]

\* The exception raised while the dict literal of lines 25-48 is evaluated,
\* entries in source order: int() of a non-number raises ValueError and int(None)
\* raises TypeError, neither message naming the environment variable.
ConfigDictError(e) ==
    IF \E i \in 1..Len(ChannelParts(e)) : ~IntOk(ChannelParts(e)[i])
    THEN [type |-> "ValueError", names |-> "none"]
    ELSE IF e["LOG_CHANNEL"] = None
    THEN [type |-> "TypeError", names |-> "none"]
    ELSE IF ~IntOk(e["LOG_CHANNEL"])
    THEN [type |-> "ValueError", names |-> "none"]
    ELSE IF ~IntOk(GetEnv(e, "MAX_TWITTER_LENGTH", Default280))
    THEN [type |-> "ValueError", names |-> "none"]
    ELSE NoError

\* self.config of lines 25-48, when no entry raises.
ConfigDict(e) ==
    [ TELEGRAM_API_ID |-> e["TELEGRAM_API_ID"],
      TELEGRAM_API_HASH |-> e["TELEGRAM_API_HASH"],
      TELEGRAM_BOT_TOKEN |-> e["TELEGRAM_BOT_TOKEN"],
      SOURCE_CHANNELS |-> [i \in 1..Len(ChannelParts(e)) |-> IntValue(ChannelParts(e)[i])],
      LOG_CHANNEL |-> IntValue(e["LOG_CHANNEL"]),
      TWITTER_BEARER_TOKEN |-> e["TWITTER_BEARER_TOKEN"],
      TWITTER_CONSUMER_KEY |-> e["TWITTER_CONSUMER_KEY"],
      TWITTER_CONSUMER_SECRET |-> e["TWITTER_CONSUMER_SECRET"],
      TWITTER_ACCESS_TOKEN |-> e["TWITTER_ACCESS_TOKEN"],
      TWITTER_ACCESS_SECRET |-> e["TWITTER_ACCESS_SECRET"],
      MAX_TWITTER_LENGTH |-> IntValue(GetEnv(e, "MAX_TWITTER_LENGTH", Default280)),
      SKIP_LONG_POSTS |-> EnvFlag(e, "SKIP_LONG_POSTS", DefaultTrue),
      REMOVE_URLS |-> EnvFlag(e, "REMOVE_URLS", DefaultTrue),
      REMOVE_HASHTAGS |-> EnvFlag(e, "REMOVE_HASHTAGS", DefaultFalse),
      REMOVE_MENTIONS |-> EnvFlag(e, "REMOVE_MENTIONS", DefaultFalse),
      ADD_PREFIX |-> GetEnv(e, "ADD_PREFIX", DefaultPrefix),
      ADD_SUFFIX |-> GetEnv(e, "ADD_SUFFIX", <<>>),
      REMOVE_EMOJIS |-> EnvFlag(e, "REMOVE_EMOJIS", DefaultFalse),
      TRIM_EXTRA_SPACES |-> EnvFlag(e, "TRIM_EXTRA_SPACES", DefaultTrue) ]

\* `not self.config.get(var)`: None or '' for a string, [] for the channel
\* list, 0 for the log channel.
ConfigFalsy(c, var) ==
    IF var = "LOG_CHANNEL" THEN c[var] = 0
    ELSE IF var = "SOURCE_CHANNELS" THEN c[var] = <<>>
    ELSE Falsy(c[var])

\* validate_config: the first required variable whose value is falsy, in the
\* order of required_vars; "none" when every one is set.
FirstMissing(c) ==
    IF \E i \in 1..Len(RequiredVars) : ConfigFalsy(c, RequiredVars[i])
    THEN RequiredVars[CHOOSE i \in 1..Len(RequiredVars) :
                         /\ ConfigFalsy(c, RequiredVars[i])
                         /\ \A j \in 1..(i - 1) : ~ConfigFalsy(c, RequiredVars[j])]
    ELSE "none"

\* The value every `lambda e: ...(e, channel_id)` of line 72 reads when it is
\* called: the lambdas share the one loop variable, which holds the last
\* channel once the loop has ended.
ClosureChannel(cell, chat) == cell

(***************************************************************************)
(* SpecInit: the constructor, then the dispatch of events.                 *)
(***************************************************************************)
NoConfig == [unset |-> TRUE]
NoInvocation == [chat |-> 0, source_channel_id |-> 0]

\* "k"; "", "0", "7", the Arabic-Indic digit seven U+0667 and "\x1c7"; "1",
\* "1, 2" and "x".
CredentialValues == { None, <<107>> }
LogChannelValues == { None, <<>>, <<48>>, <<55>>, <<1639>>, <<28, 55>> }
SourceChannelValues == { None, <<49>>, <<49, 44, 32, 50>>, <<120>> }

InitEnvs ==
    { [v \in EnvVars |->
          IF v \in CredentialVars THEN cr[v]
          ELSE IF v = "LOG_CHANNEL" THEN lc
          ELSE IF v = "SOURCE_CHANNELS" THEN sc
          ELSE IF v = "SKIP_LONG_POSTS" THEN sk
          ELSE None] :
        cr \in [CredentialVars -> CredentialValues],
        lc \in LogChannelValues,
        sc \in SourceChannelValues,
        sk \in {None, DefaultFalse} }

\* The state of the constructor before SmartPostingBot() is entered.
InitInitVars ==
    /\ initPc = "start"
    /\ config = NoConfig
    /\ initError = NoError
    /\ client = FALSE
    /\ twitter_client = FALSE
    /\ registered = <<>>
    /\ channel_id = 0
    /\ invocation = NoInvocation

\* Lines 25-48: the configuration dict is built from the environment.
LoadConfig ==
    /\ initPc = "start"
    /\ IF ConfigDictError(env) # NoError
       THEN /\ initPc' = "failed"
            /\ initError' = ConfigDictError(env)
            /\ UNCHANGED config
       ELSE /\ initPc' = "validate"
            /\ config' = ConfigDict(env)
            /\ UNCHANGED initError
    /\ UNCHANGED <<env, client, twitter_client, registered, channel_id, invocation>>
    /\ UNCHANGED textVars
    /\ UNCHANGED routerVars

\* Line 51, validate_config (lines 77-89).
ValidateConfig ==
    /\ initPc = "validate"
    /\ IF FirstMissing(config) # "none"
       THEN /\ initPc' = "failed"
            /\ initError' = [type |-> "ValueError", names |-> FirstMissing(config)]
       ELSE /\ initPc' = "clients"
            /\ UNCHANGED initError
    /\ UNCHANGED <<env, config, client, twitter_client, registered, channel_id, invocation>>
    /\ UNCHANGED textVars
    /\ UNCHANGED routerVars

\* Lines 54-67: the Telegram client is started, the Twitter client created.
CreateClients ==
    /\ initPc = "clients"
    /\ client' = TRUE
    /\ twitter_client' = TRUE
    /\ initPc' = "handlers"
    /\ UNCHANGED <<env, config, initError, registered, channel_id, invocation>>
    /\ UNCHANGED textVars
    /\ UNCHANGED routerVars

\* Lines 70-75, one iteration: channel_id takes the next channel and a lambda
\* is registered for NewMessage(chats=channel_id).
AddHandler ==
    /\ initPc = "handlers"
    /\ Len(registered) < Len(config.SOURCE_CHANNELS)
    /\ channel_id' = config.SOURCE_CHANNELS[Len(registered) + 1]
    /\ registered' = Append(registered, channel_id')
    /\ UNCHANGED <<env, initPc, config, initError, client, twitter_client, invocation>>
    /\ UNCHANGED textVars
    /\ UNCHANGED routerVars

\* The loop ends, __init__ returns and run() waits for events.
ConstructorReturns ==
    /\ initPc = "handlers"
    /\ Len(registered) = Len(config.SOURCE_CHANNELS)
    /\ initPc' = "ready"
    /\ UNCHANGED <<env, config, initError, client, twitter_client, registered,
                   channel_id, invocation>>
    /\ UNCHANGED textVars
    /\ UNCHANGED routerVars

\* A new message arrives on the chat of the k-th registered handler: its
\* lambda calls handle_source_channel_message(e, channel_id).
NewMessageEvent ==
    /\ initPc = "ready"
    /\ \E k \in 1..Len(registered) :
          invocation' = [chat |-> registered[k],
                         source_channel_id |-> ClosureChannel(channel_id, registered[k])]
    /\ UNCHANGED <<env, initPc, config, initError, client, twitter_client,
                   registered, channel_id>>
    /\ UNCHANGED textVars
    /\ UNCHANGED routerVars


(***************************************************************************)
(* Claims about process_text.                                              *)
(***************************************************************************)
\* Some substring of s matches the URL pattern.
HasUrlMatch(s) == \E i \in 1..Len(s) : UrlMatchEnd(s, i) > 0

\* C7 as stated: with REMOVE_URLS enabled, whatever the other toggles and the
\* prefix and suffix, the returned string contains no match of the URL pattern.
C7_NoUrlInOutput ==
    (ptPc = "returned" /\ ptConfig.REMOVE_URLS) => ~HasUrlMatch(ptResult)

\* C7 amended: with REMOVE_URLS enabled, REMOVE_EMOJIS disabled and both the
\* prefix and the suffix empty, the returned string contains no match of the
\* URL pattern (any setting of the hashtag, mention and whitespace toggles).
C7_NoUrlWithoutEmojiPrefixSuffix ==
    ( /\ ptPc = "returned"
      /\ ptConfig.REMOVE_URLS
      /\ ~ptConfig.REMOVE_EMOJIS
      /\ ptConfig.ADD_PREFIX = <<>>
      /\ ptConfig.ADD_SUFFIX = <<>> )
    => ~HasUrlMatch(ptResult)

\* C7 witness: a text holding a URL went through URL removal (no emoji
\* removal, no prefix, no suffix) and something other than the URL is left.
C7_Witness ==
    /\ ptPc = "returned"
    /\ ptConfig.REMOVE_URLS
    /\ ~ptConfig.REMOVE_EMOJIS
    /\ ptConfig.ADD_PREFIX = <<>>
    /\ ptConfig.ADD_SUFFIX = <<>>
    /\ ptText # None
    /\ HasUrlMatch(ptText)
    /\ ptResult # <<>>

\* The fixed order of the pipeline as the specification lists it: step k of
\* the removal and collapse steps, applied when its toggle is enabled.
ReferenceStep(k, s, cfg) ==
    CASE k = 1 -> IF cfg.REMOVE_URLS THEN RemoveUrls(s) ELSE s
      [] k = 2 -> IF cfg.REMOVE_HASHTAGS THEN RemoveHashtags(s) ELSE s
      [] k = 3 -> IF cfg.REMOVE_MENTIONS THEN RemoveMentions(s) ELSE s
      [] k = 4 -> IF cfg.REMOVE_EMOJIS THEN RemoveEmojis(s) ELSE s
      [] k = 5 -> IF cfg.TRIM_EXTRA_SPACES THEN TrimExtraSpaces(s) ELSE s

RECURSIVE ReferenceBody(_, _, _)
ReferenceBody(k, s, cfg) ==
    IF k > 5 THEN s ELSE ReferenceBody(k + 1, ReferenceStep(k, s, cfg), cfg)

\* The reference pipeline: nothing for absent or empty text, else prefix,
\* processed body and suffix joined verbatim and trimmed at both ends.
ReferencePipeline(text, cfg) ==
    IF text = None \/ Len(text) = 0 THEN <<>>
    ELSE Strip(cfg.ADD_PREFIX \o ReferenceBody(1, text, cfg) \o cfg.ADD_SUFFIX)

AllTogglesOff(cfg) ==
    /\ ~cfg.REMOVE_URLS /\ ~cfg.REMOVE_HASHTAGS /\ ~cfg.REMOVE_MENTIONS
    /\ ~cfg.REMOVE_EMOJIS /\ ~cfg.TRIM_EXTRA_SPACES
    /\ cfg.ADD_PREFIX = <<>> /\ cfg.ADD_SUFFIX = <<>>

\* C8: process_text equals the reference pipeline for every input and toggle
\* combination; absent or empty text gives the empty string; with every toggle
\* off and no prefix or suffix the result is the input trimmed at both ends.
C8_EqualsReferencePipeline ==
    ptPc = "returned" =>
        /\ ptResult = ReferencePipeline(ptText, ptConfig)
        /\ (ptText = None \/ ptText = <<>>) => ptResult = <<>>
        /\ (AllTogglesOff(ptConfig) /\ ptText # None) => ptResult = Strip(ptText)

\* C8 witness: every step enabled, prefix and suffix set, on a text holding a
\* URL and an emoji; the result starts with the prefix's emoji and differs
\* from the trimmed input.
C8_Witness ==
    /\ ptPc = "returned"
    /\ ptText # None
    /\ HasUrlMatch(ptText)
    /\ \E i \in 1..Len(ptText) : IsEmoji(ptText[i])
    /\ ptConfig.REMOVE_URLS /\ ptConfig.REMOVE_HASHTAGS /\ ptConfig.REMOVE_MENTIONS
    /\ ptConfig.REMOVE_EMOJIS /\ ptConfig.TRIM_EXTRA_SPACES
    /\ ptConfig.ADD_PREFIX # <<>> /\ ptConfig.ADD_SUFFIX # <<>>
    /\ ptResult # Strip(ptText)
    /\ Head(ptResult) = Head(ptConfig.ADD_PREFIX)

(***************************************************************************)
(* The handlers.  Handlers are coroutines of one event loop: a handler runs *)
(* alone from one await to the next, and other handlers run only while it  *)
(* is suspended in an await (download_media, send_file, send_message).     *)
(***************************************************************************)
\* The in-flight events, numbered in order of arrival.
Events == {1, 2}

\* message.media is None (0), or a document of this many bytes: exactly 50 MB,
\* or one byte more.
MediaChoices == {0, 50 * 1024 * 1024, 50 * 1024 * 1024 + 1}

\* message.text: None (a message of media alone) or "hi".
TextChoices == { None, <<104, 105>> }

NoPath == <<"none", 0>>
NoFile == [exists |-> FALSE, of |-> 0, size |-> 0, partial |-> FALSE]
NoMessage == [id |-> 0, chat |-> 0, text |-> None, media |-> 0]

\* f"temp_media_{message.id}" and f"twitter_media_{message.id}"
TempMediaPath(message) == <<"temp_media", message.id>>
TwitterMediaPath(message) == <<"twitter_media", message.id>>

Paths == { <<k, i>> : k \in {"temp_media", "twitter_media"}, i \in 1..MaxMsgId }

\* The exceptions the calls of a handler raise; each is a subclass of Exception.
ExceptionClasses == {"ValueError", "TypeError", "OSError", "RPCError", "TweepyException"}

\* `except Exception`
CatchesException(e) == e \in ExceptionClasses

\* A function without its try/except.
CatchesNothing(e) == FALSE

\* Line 185, `except Exception` of post_to_log_channel.
LogChannelCatches(e) == CatchesException(e)

\* Line 208, `except Exception` of process_for_twitter.
ProcessForTwitterCatches(e) == CatchesException(e)

\* Lines 247-252, `except TweepyException` then `except Exception`.
PostToTwitterCatches(e) == e = "TweepyException" \/ CatchesException(e)

\* Line 155, `except Exception` of handle_source_channel_message.
HandlerCatches(e) == CatchesException(e)

\* Where a handler ends when exception e reaches its outermost try.
HandlerEnd(e) == IF HandlerCatches(e) THEN "done" ELSE "raised"

\* A length check against a fixed 280 instead of the configured length.
SkipTwitterFixedLength(processed_text, cfg) ==
    cfg.SKIP_LONG_POSTS /\ Len(processed_text) > 280

\* Line 140: skip_twitter.
SkipTwitter(processed_text, cfg) ==
    cfg.SKIP_LONG_POSTS /\ Len(processed_text) > cfg.MAX_TWITTER_LENGTH

\* A size check that also rejects a file of exactly the limit.
MediaTooLargeInclusive(bytes) == bytes >= 50 * (1024 * 1024)

\* Lines 219-220: os.path.getsize(media_path) / (1024 * 1024) > 50.  The
\* division by 2^20 is exact in floating point for any file size.
MediaTooLarge(bytes) == bytes > 50 * (1024 * 1024)

\* os.remove(path) when os.path.exists(path).
RemoveIfExists(files, path) ==
    IF path # NoPath /\ files[path].exists THEN [files EXCEPT ![path] = NoFile] ELSE files

\* The results of `await client.download_media(media, file=name)`: the file is
\* written and its path returned; nothing is downloadable and None returned;
\* an error is raised before anything is written; an error is raised after
\* part of the file was written.
DownloadOutcomes == {"ok", "none", "error", "partial"}

\* The results of a send, an upload or a post creation.
CallOutcomes == {"ok", "error"}

IdleFrame ==
    [ pc |-> "idle", message |-> NoMessage, source_channel_id |-> 0,
      processed_text |-> <<>>, skip_twitter |-> FALSE, media_path |-> NoPath,
      file_size |-> -1, success |-> FALSE, exc |-> "none",
      logCalls |-> 0, twCalls |-> 0, logAttempt |-> "none", twAttempt |-> "none" ]

\* The messages event h can carry.  The two in-flight events come one from
\* each source channel: the handler uses the chat for nothing, and two messages
\* of one channel behave as two messages with different ids do here.
Messages(h) ==
    [ id : 1..MaxMsgId, chat : {registered[h]}, text : TextChoices, media : MediaChoices ]

\* Lines 129-147: a new message arrives, its lambda calls the handler, which
\* processes the text and decides on Twitter, up to the call of
\* post_to_log_channel.
NewMessage(h, m) ==
    /\ cur = 0
    /\ hs[h].pc = "idle"
    /\ \A g \in Events : g < h => hs[g].pc # "idle"
    /\ m \in Messages(h)
    /\ LET text == IF Falsy(m.text) THEN <<>> ELSE m.text
           processed == process_text(text, config)
       IN hs' = [hs EXCEPT ![h] =
                   [@ EXCEPT !.pc = "post_to_log_channel",
                             !.message = m,
                             !.source_channel_id = ClosureChannel(channel_id, m.chat),
                             !.processed_text = processed,
                             !.skip_twitter = SkipTwitter(processed, config)]]
    /\ cur' = h
    /\ UNCHANGED <<fs, logChannel, uploadCalls, createCalls, tweets>>
    /\ UNCHANGED <<textVars, initVars>>

\* Lines 158-166 and 178: post_to_log_channel is entered and reaches its first
\* await, the download of the media or the send of the text.
PostToLogChannel(h) ==
    /\ cur = h
    /\ hs[h].pc = "post_to_log_channel"
    /\ hs' = [hs EXCEPT ![h] =
                [@ EXCEPT !.logCalls = @ + 1,
                          !.logAttempt = "running",
                          !.media_path = NoPath,
                          !.pc = IF hs[h].message.media # 0
                                 THEN "log_download" ELSE "log_send_message"]]
    /\ cur' = 0
    /\ UNCHANGED <<fs, logChannel, uploadCalls, createCalls, tweets>>
    /\ UNCHANGED <<textVars, initVars>>

\* Lines 163-172: download_media returns a path or None, or raises; on a return
\* send_file is called with what it returned and awaited.
LogDownloadReturns(h) ==
    /\ cur = 0
    /\ hs[h].pc = "log_download"
    /\ \E o \in DownloadOutcomes :
         LET path == TempMediaPath(hs[h].message)
             written == [exists |-> TRUE, of |-> h, size |-> hs[h].message.media,
                         partial |-> o = "partial"]
         IN /\ fs' = IF o \in {"ok", "partial"} THEN [fs EXCEPT ![path] = written] ELSE fs
            /\ IF o \in {"ok", "none"}
               THEN /\ hs' = [hs EXCEPT ![h] =
                                [@ EXCEPT !.media_path = IF o = "ok" THEN path ELSE NoPath,
                                          !.pc = "log_send_file"]]
                    /\ cur' = 0
               ELSE /\ hs' = [hs EXCEPT ![h] = [@ EXCEPT !.exc = "RPCError",
                                                         !.pc = "log_except"]]
                    /\ cur' = h
    /\ UNCHANGED <<logChannel, uploadCalls, createCalls, tweets>>
    /\ UNCHANGED <<textVars, initVars>>

\* Lines 168-176 and 183: send_file returns, the temp file is removed when it
\* exists; or send_file raises, as it does with TypeError for file=None.
LogSendFileReturns(h) ==
    /\ cur = 0
    /\ hs[h].pc = "log_send_file"
    /\ IF hs[h].media_path = NoPath
       THEN /\ hs' = [hs EXCEPT ![h] = [@ EXCEPT !.exc = "TypeError", !.pc = "log_except"]]
            /\ UNCHANGED <<fs, logChannel>>
       ELSE \E o \in CallOutcomes :
              IF o = "ok"
              THEN /\ logChannel' = logChannel \cup
                         {[event |-> h, caption |-> hs[h].processed_text, media |-> TRUE]}
                   /\ fs' = RemoveIfExists(fs, hs[h].media_path)
                   /\ hs' = [hs EXCEPT ![h] = [@ EXCEPT !.logAttempt = "ok", !.pc = "log_return"]]
              ELSE /\ hs' = [hs EXCEPT ![h] = [@ EXCEPT !.exc = "RPCError", !.pc = "log_except"]]
                   /\ UNCHANGED <<fs, logChannel>>
    /\ cur' = h
    /\ UNCHANGED <<uploadCalls, createCalls, tweets>>
    /\ UNCHANGED <<textVars, initVars>>

\* Lines 178-183: send_message returns or raises.
LogSendMessageReturns(h) ==
    /\ cur = 0
    /\ hs[h].pc = "log_send_message"
    /\ \E o \in CallOutcomes :
         IF o = "ok"
         THEN /\ logChannel' = logChannel \cup
                    {[event |-> h, caption |-> hs[h].processed_text, media |-> FALSE]}
              /\ hs' = [hs EXCEPT ![h] = [@ EXCEPT !.logAttempt = "ok", !.pc = "log_return"]]
         ELSE /\ hs' = [hs EXCEPT ![h] = [@ EXCEPT !.exc = "RPCError", !.pc = "log_except"]]
              /\ UNCHANGED logChannel
    /\ cur' = h
    /\ UNCHANGED <<fs, uploadCalls, createCalls, tweets>>
    /\ UNCHANGED <<textVars, initVars>>

\* Lines 185-186: the exception meets the except clause of post_to_log_channel;
\* uncaught, it leaves post_to_log_channel for the handler's try (line 155).
LogExcept(h) ==
    /\ cur = h
    /\ hs[h].pc = "log_except"
    /\ IF LogChannelCatches(hs[h].exc)
       THEN /\ hs' = [hs EXCEPT ![h] = [@ EXCEPT !.logAttempt = "failed", !.exc = "none",
                                                 !.pc = "log_return"]]
            /\ cur' = h
       ELSE /\ hs' = [hs EXCEPT ![h] =
                        [@ EXCEPT !.logAttempt = "failed",
                                  !.exc = IF HandlerCatches(hs[h].exc) THEN "none" ELSE @,
                                  !.pc = HandlerEnd(hs[h].exc)]]
            /\ cur' = 0
    /\ UNCHANGED <<fs, logChannel, uploadCalls, createCalls, tweets>>
    /\ UNCHANGED <<textVars, initVars>>

\* Lines 150-153 and 188-198: back in the handler; a skipped message ends it,
\* otherwise process_for_twitter is entered and reaches the download of the
\* media (an await) or, without media, the call of post_to_twitter.
ProcessForTwitter(h) ==
    /\ cur = h
    /\ hs[h].pc = "log_return"
    /\ IF hs[h].skip_twitter
       THEN /\ hs' = [hs EXCEPT ![h] = [@ EXCEPT !.pc = "done"]]
            /\ cur' = 0
       ELSE /\ hs' = [hs EXCEPT ![h] =
                        [@ EXCEPT !.twCalls = @ + 1,
                                  !.twAttempt = "running",
                                  !.media_path = NoPath,
                                  !.pc = IF hs[h].message.media # 0
                                         THEN "tw_download" ELSE "post_to_twitter"]]
            /\ cur' = IF hs[h].message.media # 0 THEN 0 ELSE h
    /\ UNCHANGED <<fs, logChannel, uploadCalls, createCalls, tweets>>
    /\ UNCHANGED <<textVars, initVars>>

\* Lines 195-198: download_media returns a path or None, or raises with
\* media_path still None.
TwitterDownloadReturns(h) ==
    /\ cur = 0
    /\ hs[h].pc = "tw_download"
    /\ \E o \in DownloadOutcomes :
         LET path == TwitterMediaPath(hs[h].message)
             written == [exists |-> TRUE, of |-> h, size |-> hs[h].message.media,
                         partial |-> o = "partial"]
         IN /\ fs' = IF o \in {"ok", "partial"} THEN [fs EXCEPT ![path] = written] ELSE fs
            /\ hs' = [hs EXCEPT ![h] =
                        IF o = "ok" THEN [@ EXCEPT !.media_path = path, !.pc = "post_to_twitter"]
                        ELSE IF o = "none" THEN [@ EXCEPT !.pc = "post_to_twitter"]
                        ELSE [@ EXCEPT !.exc = "RPCError", !.pc = "tw_except"]]
    /\ cur' = h
    /\ UNCHANGED <<logChannel, uploadCalls, createCalls, tweets>>
    /\ UNCHANGED <<textVars, initVars>>

\* Lines 201-206 and 214-252: post_to_twitter(processed_text, media_path), a
\* synchronous call: the size check, the upload, the post creation, and its
\* two except clauses.
PostToTwitter(h) ==
    /\ cur = h
    /\ hs[h].pc = "post_to_twitter"
    /\ \E up \in CallOutcomes, cr \in CallOutcomes :
         LET mp == hs[h].media_path
             missing == mp # NoPath /\ ~fs[mp].exists
             size == IF mp # NoPath /\ fs[mp].exists THEN fs[mp].size ELSE -1
             rejected == size >= 0 /\ MediaTooLarge(size)
             uploading == mp # NoPath /\ ~missing /\ ~rejected
             creating == IF mp # NoPath THEN uploading /\ up = "ok" ELSE TRUE
             e == IF missing THEN "OSError"
                  ELSE IF rejected THEN "ValueError"
                  ELSE IF uploading /\ up = "error" THEN "TweepyException"
                  ELSE IF cr = "error" THEN "TweepyException"
                  ELSE "none"
         IN /\ uploadCalls' = IF uploading THEN uploadCalls \cup {h} ELSE uploadCalls
            /\ createCalls' = IF creating THEN createCalls \cup {h} ELSE createCalls
            /\ tweets' = IF e = "none"
                         THEN tweets \cup {[event |-> h, text |-> hs[h].processed_text,
                                            media |-> mp # NoPath]}
                         ELSE tweets
            /\ hs' = [hs EXCEPT ![h] =
                        IF e = "none" \/ PostToTwitterCatches(e)
                        THEN [@ EXCEPT !.file_size = size, !.success = (e = "none"),
                                       !.pc = "tw_finally"]
                        ELSE [@ EXCEPT !.file_size = size, !.exc = e, !.pc = "tw_except"]]
    /\ cur' = h
    /\ UNCHANGED <<fs, logChannel>>
    /\ UNCHANGED <<textVars, initVars>>

\* Lines 208-209: the exception meets the except clause of process_for_twitter.
ProcessForTwitterExcept(h) ==
    /\ cur = h
    /\ hs[h].pc = "tw_except"
    /\ hs' = [hs EXCEPT ![h] =
                [@ EXCEPT !.exc = IF ProcessForTwitterCatches(hs[h].exc) THEN "none" ELSE @,
                          !.pc = "tw_finally"]]
    /\ cur' = h
    /\ UNCHANGED <<fs, logChannel, uploadCalls, createCalls, tweets>>
    /\ UNCHANGED <<textVars, initVars>>

\* Lines 210-212: the finally clause removes the file media_path names, if any;
\* process_for_twitter and the handler return (or the exception goes on).
ProcessForTwitterFinally(h) ==
    /\ cur = h
    /\ hs[h].pc = "tw_finally"
    /\ fs' = RemoveIfExists(fs, hs[h].media_path)
    /\ hs' = [hs EXCEPT ![h] =
                [@ EXCEPT !.twAttempt = "ended",
                          !.exc = IF HandlerCatches(hs[h].exc) THEN "none" ELSE @,
                          !.pc = IF hs[h].exc = "none" THEN "done" ELSE HandlerEnd(hs[h].exc)]]
    /\ cur' = 0
    /\ UNCHANGED <<logChannel, uploadCalls, createCalls, tweets>>
    /\ UNCHANGED <<textVars, initVars>>

(***************************************************************************)
(* The specifications.                                                     *)
(***************************************************************************)
vars == <<textVars, initVars, routerVars>>

\* The variables of SpecText while another specification runs.
TextIdle ==
    /\ ptText = None
    /\ ptConfig = NoConfig
    /\ ptPc = "off"
    /\ ptResult = <<>>

\* The variables of SpecInit while another specification runs.
InitIdle ==
    /\ env = [v \in EnvVars |-> None]
    /\ initPc = "off"
    /\ config = NoConfig
    /\ initError = NoError
    /\ client = FALSE
    /\ twitter_client = FALSE
    /\ registered = <<>>
    /\ channel_id = 0
    /\ invocation = NoInvocation

\* The variables of Spec while another specification runs.
RouterIdle ==
    /\ cur = 0
    /\ hs = [h \in Events |-> IdleFrame]
    /\ fs = [p \in Paths |-> NoFile]
    /\ logChannel = {}
    /\ uploadCalls = {}
    /\ createCalls = {}
    /\ tweets = {}

InitText == InitTextVars /\ InitIdle /\ RouterIdle

NextText == ProcessTextCall

SpecText == InitText /\ [][NextText]_vars

InitInit == env \in InitEnvs /\ InitInitVars /\ TextIdle /\ RouterIdle

NextInit ==
    \/ LoadConfig
    \/ ValidateConfig
    \/ CreateClients
    \/ AddHandler
    \/ ConstructorReturns
    \/ NewMessageEvent

SpecInit == InitInit /\ [][NextInit]_vars

\* "k", "7", "1, 2" and "3": every credential set, log channel 7, source
\* channels 1 and 2, MAX_TWITTER_LENGTH 3, SKIP_LONG_POSTS default or "False".
RouterEnvs ==
    { [v \in EnvVars |->
          IF v \in CredentialVars THEN <<107>>
          ELSE IF v = "LOG_CHANNEL" THEN <<55>>
          ELSE IF v = "SOURCE_CHANNELS" THEN <<49, 44, 32, 50>>
          ELSE IF v = "MAX_TWITTER_LENGTH" THEN <<51>>
          ELSE IF v = "SKIP_LONG_POSTS" THEN sk
          ELSE None] :
        sk \in {None, DefaultFalse} }

\* The bot as SmartPostingBot() leaves it, no event handled yet.
Init ==
    /\ env \in RouterEnvs
    /\ initPc = "ready"
    /\ config = ConfigDict(env)
    /\ initError = NoError
    /\ client = TRUE
    /\ twitter_client = TRUE
    /\ registered = config.SOURCE_CHANNELS
    /\ channel_id = config.SOURCE_CHANNELS[Len(config.SOURCE_CHANNELS)]
    /\ invocation = NoInvocation
    /\ TextIdle
    /\ RouterIdle

Next ==
    \/ \E h \in Events : \E m \in Messages(h) : NewMessage(h, m)
    \/ \E h \in Events : PostToLogChannel(h)
    \/ \E h \in Events : LogDownloadReturns(h)
    \/ \E h \in Events : LogSendFileReturns(h)
    \/ \E h \in Events : LogSendMessageReturns(h)
    \/ \E h \in Events : LogExcept(h)
    \/ \E h \in Events : ProcessForTwitter(h)
    \/ \E h \in Events : TwitterDownloadReturns(h)
    \/ \E h \in Events : PostToTwitter(h)
    \/ \E h \in Events : ProcessForTwitterExcept(h)
    \/ \E h \in Events : ProcessForTwitterFinally(h)

Spec == Init /\ [][Next]_vars

(***************************************************************************)
(* Claims about the constructor and the registration of handlers.          *)
(***************************************************************************)
\* Required setting u is set to a value the constructor can use: a non-empty
\* string, a non-zero number for the log channel, one or more numbers for the
\* source channels.
Usable(u) ==
    /\ env[u] # None
    /\ IF u = "LOG_CHANNEL" THEN IntOk(env[u]) /\ IntValue(env[u]) # 0
       ELSE IF u = "SOURCE_CHANNELS"
       THEN /\ ChannelParts(env) # <<>>
            /\ \A i \in 1..Len(ChannelParts(env)) : IntOk(ChannelParts(env)[i])
       ELSE env[u] # <<>>

RequiredSet == { RequiredVars[i] : i \in 1..Len(RequiredVars) }

\* C6: for each required setting v, when v is absent from the environment (the
\* other required settings being usable) construction never creates a client
\* nor registers or runs a handler, and it fails with a ValueError that names v.
C6_MissingSettingNamed ==
    \A v \in RequiredSet :
        ( /\ initPc # "off"
          /\ env[v] = None
          /\ \A u \in RequiredSet \ {v} : Usable(u) )
        => /\ initPc \in {"start", "validate", "failed"}
           /\ ~client /\ ~twitter_client
           /\ registered = <<>>
           /\ invocation = NoInvocation
           /\ initPc = "failed" => (initError.type = "ValueError" /\ initError.names = v)

\* C10: every call of handle_source_channel_message made for an event of chat c
\* receives source_channel_id = c.
C10_HandlerGetsOwnChannel ==
    invocation # NoInvocation => invocation.source_channel_id = invocation.chat

(***************************************************************************)
(* Claims about the handlers.                                              *)
(***************************************************************************)
Dispatched(h) == hs[h].pc # "idle"

HasMedia(h) == hs[h].message.media # 0

\* The check of line 140 applies to the event of h.
TooLongToPost(h) ==
    /\ Dispatched(h)
    /\ config.SKIP_LONG_POSTS
    /\ Len(hs[h].processed_text) > config.MAX_TWITTER_LENGTH

\* A file downloaded by the handler of h is at path p.
LeftBy(h, p) == fs[p].exists /\ fs[p].of = h

\* C1: for an event whose processed text is longer than MAX_TWITTER_LENGTH with
\* SKIP_LONG_POSTS set, process_for_twitter and post_to_twitter are never
\* invoked (no upload, no post creation), and post_to_log_channel is invoked
\* exactly once by the time the handler has returned, never more.
C1_LongPostSkipsTwitterOnly ==
    \A h \in Events :
        TooLongToPost(h) =>
            /\ hs[h].twCalls = 0
            /\ hs[h].twAttempt = "none"
            /\ h \notin uploadCalls /\ h \notin createCalls
            /\ hs[h].logCalls <= 1
            /\ hs[h].pc = "done" => hs[h].logCalls = 1

\* C1 witness: the handler of a too long message has returned after its one
\* log delivery attempt.
C1_Witness ==
    \E h \in Events :
        /\ TooLongToPost(h)
        /\ hs[h].pc = "done"
        /\ hs[h].logCalls = 1
        /\ hs[h].logAttempt = "ok"

\* C2: once the log-destination attempt of a message with media has ended, its
\* download having returned a file, that file no longer exists, whether
\* send_file returned or raised.
C2_LogTempFileRemoved ==
    \A h \in Events :
        ( /\ HasMedia(h)
          /\ hs[h].logAttempt \in {"ok", "failed"}
          /\ hs[h].media_path = TempMediaPath(hs[h].message) )
            => ~LeftBy(h, hs[h].media_path)

\* C3: once the micro-blog attempt of a message with media has ended, whatever
\* its outcome, no file it downloaded exists.
C3_TwitterTempFileRemoved ==
    \A h \in Events :
        (HasMedia(h) /\ hs[h].twAttempt = "ended")
            => ~LeftBy(h, TwitterMediaPath(hs[h].message))

\* C4: (1) an eligible message reaches process_for_twitter exactly once even
\* when its log attempt failed; (2) what a log attempt sent stays in the log
\* channel whatever the micro-blog attempt does; (3) no handler ends by raising.
C4_FailuresContained ==
    \A h \in Events :
        /\ hs[h].pc # "raised"
        /\ (hs[h].pc = "done" /\ ~hs[h].skip_twitter) =>
               (hs[h].twCalls = 1 /\ hs[h].twAttempt = "ended")
        /\ hs[h].logAttempt = "ok" =>
               [event |-> h, caption |-> hs[h].processed_text, media |-> HasMedia(h)]
                   \in logChannel
        /\ hs[h].pc = "done" => hs[h].exc = "none"

\* C4 witness: one handler has returned after a failed log attempt and a
\* created post, the other after a completed log send and a failed
\* micro-blog attempt.
C4_Witness ==
    \E h \in Events, g \in Events :
        /\ hs[h].pc = "done" /\ hs[h].logAttempt = "failed"
        /\ hs[h].twCalls = 1 /\ hs[h].success
        /\ \E t \in tweets : t.event = h
        /\ hs[g].pc = "done" /\ hs[g].logAttempt = "ok"
        /\ hs[g].twAttempt = "ended" /\ ~hs[g].success
        /\ \E l \in logChannel : l.event = g

\* post_to_twitter has returned in the handler of h.
PostToTwitterReturned(h) == hs[h].twCalls = 1 /\ hs[h].pc \in {"tw_finally", "done"}

\* C5: when the file post_to_twitter measured is larger than 50 MB, neither
\* media_upload nor create_tweet is called, post_to_twitter returns False
\* without raising, the handler does not raise and the log channel keeps what
\* was sent; a file of exactly 50 MB goes on to media_upload.
C5_OversizeMediaFailsDeliveryOnly ==
    \A h \in Events :
        /\ hs[h].file_size > 50 * 1024 * 1024 =>
              /\ h \notin uploadCalls /\ h \notin createCalls
              /\ \A t \in tweets : t.event # h
              /\ hs[h].pc \notin {"tw_except", "raised"}
              /\ hs[h].exc = "none"
              /\ PostToTwitterReturned(h) /\ ~hs[h].success
              /\ hs[h].logAttempt = "ok" => \E l \in logChannel : l.event = h
        /\ (hs[h].file_size >= 0 /\ hs[h].file_size <= 50 * 1024 * 1024) =>
              h \in uploadCalls

\* C5 witness: the media went to the log channel, the micro-blog attempt met a
\* file of more than 50 MB, and the handler has returned.
C5_Witness ==
    \E h \in Events :
        /\ hs[h].file_size > 50 * 1024 * 1024
        /\ hs[h].pc = "done"
        /\ hs[h].logAttempt = "ok"
        /\ [event |-> h, caption |-> hs[h].processed_text, media |-> TRUE] \in logChannel

\* C9: while a log attempt awaits send_file, the file it downloaded is still
\* there and is still its own: no other handler has overwritten or removed it.
C9_TransientFilePrivate ==
    \A h \in Events :
        (hs[h].pc = "log_send_file" /\ hs[h].media_path # NoPath)
            => LeftBy(h, hs[h].media_path)

=============================================================================
